---- MODULE Spec2Model ----
(***************************************************************************)
(* ConfigureAdapter (packages/react/.../configure-adapter.js): the         *)
(* component that sequences adapter.configure / adapter.reconfigure calls  *)
(* and keeps the applied and the pending adapterArgs.                      *)
(*                                                                         *)
(* An adapterArgs object is a function from key paths to leaf values:      *)
(* {a: 1, n: {x: 2}} is (<<"a">> :> 1 @@ <<"n","x">> :> 2).  Every request *)
(* carries a freshly built object, so object identity is not tracked.      *)
(* The nullable field pendingAdapterArgs is a set: {} is null, {v} is v.   *)
(*                                                                         *)
(* setState follows React's class-component rules: called inside a batch   *)
(* (an event handler, a lifecycle of a consumer) the update is queued and  *)
(* this.state keeps its value until the batch ends; called outside one (a  *)
(* promise continuation, a timer) it is processed before setState returns. *)
(* Processing an update re-renders, runs componentDidUpdate and only then  *)
(* the setState callback.                                                  *)
(***************************************************************************)
EXTENDS Integers, Sequences, FiniteSets, TLC

\* Bounds of the model.
MaxRequests == 2
MaxCalls == 3

\* AdapterStates, lines 9-17.
UNCONFIGURED == "unconfigured"
CONFIGURING == "configuring"
CONFIGURED == "configured"

NULL == {}
Some(v) == {v}
Unwrap(s) == CHOOSE v \in s : TRUE

\* The adapterArgs the component is constructed with, those that later
\* requests and prop changes carry, and the defaultFlags.
ConstructionArgs == { (<<"a">> :> 1 @@ <<"n", "x">> :> 1) }
RequestArgs == { (<<"b">> :> 2), (<<"a">> :> 2 @@ <<"n", "y">> :> 2) }
NoArgs == << >>
FlagSets == { << >>, (<<"flagX">> :> 1) }

VARIABLES
  adapterState,        \* this.adapterState
  pendingAdapterArgs,  \* this.pendingAdapterArgs
  appliedAdapterArgs,  \* this.state.appliedAdapterArgs
  props,               \* this.props: adapterArgs, shouldDefer(AdapterConfiguration), defaultFlags
  mounted,             \* componentDidMount has run
  updateQueue,         \* setState updates queued in the running batch
  outstanding,         \* adapter promises not yet settled
  calls,               \* every call made on the adapter so far, in order
  rejected,            \* an adapter promise has rejected
  requests,            \* history: every reconfigureOrQueue call so far
  initialArgs,         \* history: the adapterArgs of construction
  deferLifted,         \* history: shouldDeferAdapterConfiguration has been false
  last                 \* history: the handler that ran last and the state it ran in

vars == << adapterState, pendingAdapterArgs, appliedAdapterArgs, props, mounted,
           updateQueue, outstanding, calls, rejected, requests, initialArgs,
           deferLifted, last >>

----------------------------------------------------------------------------
IsPrefix(p, q) == Len(p) <= Len(q) /\ SubSeq(q, 1, Len(p)) = p

\* deepmerge(x, y): the keys of both; where both hold an object under a key
\* the two are merged recursively, otherwise y's value replaces x's.
merge(x, y) ==
  LET kept == { p \in DOMAIN x :
                  \A q \in DOMAIN y : ~IsPrefix(p, q) /\ ~IsPrefix(q, p) }
  IN [ p \in kept \cup DOMAIN y |-> IF p \in DOMAIN y THEN y[p] ELSE x[p] ]

\* mergeAdapterArgs with a shallow merge ({...previous, ...next}): a
\* top-level key of next replaces the whole value under that key.
mergeAdapterArgsShallow(previousAdapterArgs, nextAdapterArgs, shouldOverwrite) ==
  IF shouldOverwrite
    THEN nextAdapterArgs
    ELSE LET kept == { p \in DOMAIN previousAdapterArgs :
                         \A q \in DOMAIN nextAdapterArgs : p[1] # q[1] }
         IN [ p \in kept \cup DOMAIN nextAdapterArgs |->
                IF p \in DOMAIN nextAdapterArgs THEN nextAdapterArgs[p]
                                                ELSE previousAdapterArgs[p] ]

mergeAdapterArgs(previousAdapterArgs, nextAdapterArgs, shouldOverwrite) ==
  IF shouldOverwrite
    THEN nextAdapterArgs
    ELSE merge(previousAdapterArgs, nextAdapterArgs)

\* getAdapterArgsForConfiguration that never reads pendingAdapterArgs.
getAppliedAdapterArgs(pending, applied) == applied

\* this.pendingAdapterArgs || this.state.appliedAdapterArgs
getAdapterArgsForConfiguration(pending, applied) ==
  IF pending # NULL THEN Unwrap(pending) ELSE applied

\* setPendingAdapterArgs that always merges into the applied args.
setPendingAdapterArgsFromApplied(pending, applied, nextAdapterArgs, shouldOverwrite) ==
  Some(mergeAdapterArgs(applied, nextAdapterArgs, shouldOverwrite))

\* The value setPendingAdapterArgs leaves in this.pendingAdapterArgs,
\* lines 113-128.
setPendingAdapterArgs(pending, applied, nextAdapterArgs, shouldOverwrite) ==
  Some(mergeAdapterArgs(IF pending # NULL THEN Unwrap(pending) ELSE applied,
                        nextAdapterArgs, shouldOverwrite))

Call(kind, args) == [kind |-> kind, args |-> args]

\* handleDefaultFlags without its test for an empty defaultFlags.
handleDefaultFlagsUnconditional(defaultFlags) ==
  << Call("onFlagsStateChange", defaultFlags) >>

\* handleDefaultFlags: the calls it makes on the adapter's flag-change sink.
handleDefaultFlags(defaultFlags) ==
  IF Cardinality(DOMAIN defaultFlags) > 0
    THEN << Call("onFlagsStateChange", defaultFlags) >>
    ELSE << >>

\* What a piece of a handler does to the component: the adapterState,
\* applied and pending args it leaves, the setAdapterState transitions it
\* makes, the adapter calls it issues and the setState updates it queues.
Effect(st, pending, applied, trans, issued, queued) ==
  [ state |-> st, pending |-> pending, applied |-> applied, trans |-> trans,
    issued |-> issued, queued |-> queued ]

\* componentDidUpdate whose configure branch does not test for CONFIGURING.
componentDidUpdateReconfiguring(shouldDefer, st, pending, applied) ==
  IF ~shouldDefer /\ st # CONFIGURED
    THEN Effect(CONFIGURING, pending, applied, << <<st, CONFIGURING>> >>,
                << Call("configure",
                        getAdapterArgsForConfiguration(pending, applied)) >>,
                << >>)
  ELSE IF st = CONFIGURED /\ st # CONFIGURING
    THEN Effect(CONFIGURING, pending, applied, << <<st, CONFIGURING>> >>,
                << Call("reconfigure",
                        getAdapterArgsForConfiguration(pending, applied)) >>,
                << >>)
  ELSE Effect(st, pending, applied, << >>, << >>, << >>)

\* componentDidUpdate that does not read shouldDeferAdapterConfiguration.
componentDidUpdateIgnoringDefer(shouldDefer, st, pending, applied) ==
  IF st # CONFIGURED /\ st # CONFIGURING
    THEN Effect(CONFIGURING, pending, applied, << <<st, CONFIGURING>> >>,
                << Call("configure",
                        getAdapterArgsForConfiguration(pending, applied)) >>,
                << >>)
  ELSE IF st = CONFIGURED /\ st # CONFIGURING
    THEN Effect(CONFIGURING, pending, applied, << <<st, CONFIGURING>> >>,
                << Call("reconfigure",
                        getAdapterArgsForConfiguration(pending, applied)) >>,
                << >>)
  ELSE Effect(st, pending, applied, << >>, << >>, << >>)

\* componentDidUpdate whose reconfigure branch runs in every state but
\* UNCONFIGURED.
componentDidUpdateUnguarded(shouldDefer, st, pending, applied) ==
  IF ~shouldDefer /\ st # CONFIGURED /\ st # CONFIGURING
    THEN Effect(CONFIGURING, pending, applied, << <<st, CONFIGURING>> >>,
                << Call("configure",
                        getAdapterArgsForConfiguration(pending, applied)) >>,
                << >>)
  ELSE IF st # UNCONFIGURED
    THEN Effect(CONFIGURING, pending, applied, << <<st, CONFIGURING>> >>,
                << Call("reconfigure",
                        getAdapterArgsForConfiguration(pending, applied)) >>,
                << >>)
  ELSE Effect(st, pending, applied, << >>, << >>, << >>)

\* componentDidUpdate whose configure branch does not test for CONFIGURED.
componentDidUpdateConfiguresAgain(shouldDefer, st, pending, applied) ==
  IF ~shouldDefer /\ st # CONFIGURING
    THEN Effect(CONFIGURING, pending, applied, << <<st, CONFIGURING>> >>,
                << Call("configure",
                        getAdapterArgsForConfiguration(pending, applied)) >>,
                << >>)
  ELSE IF st = CONFIGURED /\ st # CONFIGURING
    THEN Effect(CONFIGURING, pending, applied, << <<st, CONFIGURING>> >>,
                << Call("reconfigure",
                        getAdapterArgsForConfiguration(pending, applied)) >>,
                << >>)
  ELSE Effect(st, pending, applied, << >>, << >>, << >>)

\* componentDidUpdate, lines 195-231.
componentDidUpdate(shouldDefer, st, pending, applied) ==
  IF ~shouldDefer /\ st # CONFIGURED /\ st # CONFIGURING
    THEN Effect(CONFIGURING, pending, applied, << <<st, CONFIGURING>> >>,
                << Call("configure",
                        getAdapterArgsForConfiguration(pending, applied)) >>,
                << >>)
  ELSE IF st = CONFIGURED /\ st # CONFIGURING
    THEN Effect(CONFIGURING, pending, applied, << <<st, CONFIGURING>> >>,
                << Call("reconfigure",
                        getAdapterArgsForConfiguration(pending, applied)) >>,
                << >>)
  ELSE Effect(st, pending, applied, << >>, << >>, << >>)

\* applyAdapterArgs without the setState callback that unsets
\* pendingAdapterArgs.
applyAdapterArgsKeepingPending(nextAdapterArgs, shouldDefer, st, pending) ==
  LET cdu == componentDidUpdate(shouldDefer, st, pending, nextAdapterArgs)
  IN Effect(cdu.state, pending, nextAdapterArgs, cdu.trans, cdu.issued, << >>)

\* applyAdapterArgs when React processes its setState: the updater replaces
\* appliedAdapterArgs, the re-render runs componentDidUpdate, and then the
\* setState callback unsets pendingAdapterArgs.
applyAdapterArgs(nextAdapterArgs, shouldDefer, st, pending) ==
  LET cdu == componentDidUpdate(shouldDefer, st, pending, nextAdapterArgs)
  IN Effect(cdu.state, NULL, nextAdapterArgs, cdu.trans, cdu.issued, << >>)

\* The condition of reconfigureOrQueue without its CONFIGURING test.
shouldApplyWhileConfiguring(st) == st # UNCONFIGURED

\* The condition of reconfigureOrQueue, lines 103-104.
shouldApply(st) == st = CONFIGURED /\ st # CONFIGURING

\* reconfigureOrQueue(nextAdapterArgs, {shouldOverwrite}); batched: the
\* caller runs inside a React batch.
reconfigureOrQueue(nextAdapterArgs, shouldOverwrite, batched, shouldDefer, st, pending, applied) ==
  IF shouldApply(st)
    THEN LET next == mergeAdapterArgs(applied, nextAdapterArgs, shouldOverwrite)
         IN IF batched
              THEN Effect(st, pending, applied, << >>, << >>, << next >>)
              ELSE applyAdapterArgs(next, shouldDefer, st, pending)
    ELSE Effect(st,
                setPendingAdapterArgs(pending, applied, nextAdapterArgs,
                                      shouldOverwrite),
                applied, << >>, << >>, << >>)

\* The continuation of adapter.configure(...) without its test of
\* pendingAdapterArgs: it always applies the args of the configuration.
configureThenAlwaysApply(shouldDefer, st, pending, applied) ==
  LET r == applyAdapterArgs(getAdapterArgsForConfiguration(pending, applied),
                            shouldDefer, CONFIGURED, pending)
  IN [r EXCEPT !.trans = << <<st, CONFIGURED>> >> \o r.trans]

\* The continuation of adapter.configure(...), lines 186-191 and 212-218.
configureThen(shouldDefer, st, pending, applied) ==
  IF pending # NULL
    THEN LET r == applyAdapterArgs(Unwrap(pending), shouldDefer, CONFIGURED,
                                   pending)
         IN [r EXCEPT !.trans = << <<st, CONFIGURED>> >> \o r.trans]
    ELSE Effect(CONFIGURED, pending, applied, << <<st, CONFIGURED>> >>, << >>,
                << >>)

\* A reconfigure continuation that commits pendingAdapterArgs the way the
\* configure continuation does.
reconfigureThenDrains(st, pending, applied) ==
  IF pending # NULL
    THEN Effect(CONFIGURED, NULL, Unwrap(pending), << <<st, CONFIGURED>> >>,
                << >>, << >>)
    ELSE Effect(CONFIGURED, pending, applied, << <<st, CONFIGURED>> >>, << >>,
                << >>)

\* The continuation of adapter.reconfigure(...), lines 227-229.
reconfigureThen(st, pending, applied) ==
  Effect(CONFIGURED, pending, applied, << <<st, CONFIGURED>> >>, << >>, << >>)

----------------------------------------------------------------------------
IsPromise(c) == c.kind \in {"configure", "reconfigure"}
AdapterCalls == SelectSeq(calls, IsPromise)
Remove(s, i) == SubSeq(s, 1, i - 1) \o SubSeq(s, i + 1, Len(s))

Init ==
  /\ adapterState = UNCONFIGURED
  /\ pendingAdapterArgs = NULL
  /\ initialArgs \in ConstructionArgs
  /\ appliedAdapterArgs = initialArgs
  /\ \E d \in BOOLEAN, f \in FlagSets :
       props = [adapterArgs |-> initialArgs, shouldDefer |-> d, defaultFlags |-> f]
  /\ deferLifted = ~props.shouldDefer
  /\ mounted = FALSE
  /\ updateQueue = << >>
  /\ outstanding = << >>
  /\ calls = << >>
  /\ rejected = FALSE
  /\ requests = << >>
  /\ last = [ op |-> "init", args |-> NoArgs, overwrite |-> FALSE,
              batched |-> FALSE, trans |-> << >>, state |-> UNCONFIGURED,
              pending |-> NULL, applied |-> initialArgs, ncalls |-> 0,
              noutstanding |-> 0 ]

\* Every adapterArgs object over two top-level keys, one of which may hold
\* a nested object with two keys: the inputs of mergeAdapterArgs.
ArgPaths == { <<"a">>, <<"n">>, <<"n", "x">>, <<"n", "y">> }
LeafValues == {1, 2}
AnyArgs ==
  UNION { [S -> LeafValues] :
          S \in { T \in SUBSET ArgPaths :
                    \A p, q \in T : p # q => ~IsPrefix(p, q) } }

\* Construction with any adapterArgs, configuration not deferred.
MergeInit ==
  /\ adapterState = UNCONFIGURED
  /\ pendingAdapterArgs = NULL
  /\ initialArgs \in AnyArgs
  /\ appliedAdapterArgs = initialArgs
  /\ props = [adapterArgs |-> initialArgs, shouldDefer |-> FALSE,
              defaultFlags |-> NoArgs]
  /\ deferLifted = TRUE
  /\ mounted = FALSE
  /\ updateQueue = << >>
  /\ outstanding = << >>
  /\ calls = << >>
  /\ rejected = FALSE
  /\ requests = << >>
  /\ last = [ op |-> "init", args |-> NoArgs, overwrite |-> FALSE,
              batched |-> FALSE, trans |-> << >>, state |-> UNCONFIGURED,
              pending |-> NULL, applied |-> initialArgs, ncalls |-> 0,
              noutstanding |-> 0 ]

\* A handler with effect e ran: the component's fields, the adapter's side
\* and the record of the handler.  stillOut: the promises outstanding that
\* the handler did not settle.
Run(op, args, overwrite, batched, e, stillOut) ==
  /\ adapterState' = e.state
  /\ pendingAdapterArgs' = e.pending
  /\ appliedAdapterArgs' = e.applied
  /\ calls' = calls \o e.issued
  /\ outstanding' = stillOut \o SelectSeq(e.issued, IsPromise)
  /\ last' = [ op |-> op, args |-> args, overwrite |-> overwrite,
               batched |-> batched, trans |-> e.trans, state |-> adapterState,
               pending |-> pendingAdapterArgs, applied |-> appliedAdapterArgs,
               ncalls |-> Len(AdapterCalls), noutstanding |-> Len(outstanding) ]

Requested(op, args, overwrite) ==
  Append(requests, [ op |-> op, args |-> args, overwrite |-> overwrite,
                     state |-> adapterState ])

componentDidMount ==
  /\ ~mounted
  /\ mounted' = TRUE
  /\ LET flags == handleDefaultFlags(props.defaultFlags)
         e == IF ~props.shouldDefer
                THEN Effect(CONFIGURING, pendingAdapterArgs, appliedAdapterArgs,
                            << <<adapterState, CONFIGURING>> >>,
                            flags \o
                            << Call("configure",
                                    getAdapterArgsForConfiguration(
                                      pendingAdapterArgs, appliedAdapterArgs)) >>,
                            << >>)
                ELSE Effect(adapterState, pendingAdapterArgs, appliedAdapterArgs,
                            << >>, flags, << >>)
     IN Run("mount", NoArgs, FALSE, FALSE, e, outstanding)
  /\ UNCHANGED << props, updateQueue, rejected, requests, initialArgs,
                  deferLifted >>

\* A consumer calls the published reconfigureOrQueue.  While a batch holds
\* queued updates, only further calls of that batch run before it ends; a
\* call that only queues makes no setState, so batching is told apart only
\* for calls that apply.
RequestReconfiguration(nextAdapterArgs, shouldOverwrite, batched) ==
  /\ Len(requests) < MaxRequests
  /\ Len(AdapterCalls) < MaxCalls
  /\ updateQueue # << >> => batched
  /\ batched => shouldApply(adapterState)
  /\ requests' = Requested("request", nextAdapterArgs, shouldOverwrite)
  /\ LET e == reconfigureOrQueue(nextAdapterArgs, shouldOverwrite, batched,
                                 props.shouldDefer, adapterState,
                                 pendingAdapterArgs, appliedAdapterArgs)
     IN /\ Run("request", nextAdapterArgs, shouldOverwrite, batched, e,
               outstanding)
        /\ updateQueue' = updateQueue \o e.queued
  /\ UNCHANGED << props, mounted, rejected, initialArgs, deferLifted >>

\* The end of a batch: React processes the queued updates in order (each
\* updater replaces appliedAdapterArgs), re-renders once, runs
\* componentDidUpdate and then the setState callbacks.
FlushBatch ==
  /\ updateQueue # << >>
  /\ LET e == applyAdapterArgs(updateQueue[Len(updateQueue)], props.shouldDefer,
                               adapterState, pendingAdapterArgs)
     IN Run("flush", NoArgs, FALSE, TRUE, e, outstanding)
  /\ updateQueue' = << >>
  /\ UNCHANGED << props, mounted, rejected, requests, initialArgs, deferLifted >>

\* componentWillReceiveProps overwriting in every state.
shouldOverwritePropsAlways(st) == TRUE

\* The shouldOverwrite option componentWillReceiveProps passes, line 173.
shouldOverwriteProps(st) == st = CONFIGURED

\* A re-render that brings a new adapterArgs prop: componentWillReceiveProps
\* (lines 159-176), the processing of the setState it may have made, then
\* componentDidUpdate with the new props.
componentWillReceiveProps(nextAdapterArgs) ==
  /\ mounted
  /\ updateQueue = << >>
  /\ Len(requests) < MaxRequests
  /\ Len(AdapterCalls) < MaxCalls
  /\ props' = [props EXCEPT !.adapterArgs = nextAdapterArgs]
  /\ LET shouldOverwrite == shouldOverwriteProps(adapterState)
         r == reconfigureOrQueue(nextAdapterArgs, shouldOverwrite, FALSE,
                                 props.shouldDefer, adapterState,
                                 pendingAdapterArgs, appliedAdapterArgs)
         e == IF shouldApply(adapterState)
                THEN r
                ELSE componentDidUpdate(props.shouldDefer, r.state, r.pending,
                                        r.applied)
     IN /\ requests' = Requested("props", nextAdapterArgs, shouldOverwrite)
        /\ Run("props", nextAdapterArgs, shouldOverwrite, FALSE, e, outstanding)
  /\ UNCHANGED << mounted, updateQueue, rejected, initialArgs, deferLifted >>

\* A re-render that leaves adapterArgs as it is (another prop changed):
\* componentDidUpdate alone.  shouldDefer is the
\* shouldDeferAdapterConfiguration the re-render brings.
Rerender(op, shouldDefer) ==
  /\ mounted
  /\ updateQueue = << >>
  /\ Len(AdapterCalls) < MaxCalls
  /\ props' = [props EXCEPT !.shouldDefer = shouldDefer]
  /\ deferLifted' = (deferLifted \/ ~shouldDefer)
  /\ Run(op, NoArgs, FALSE, FALSE,
         componentDidUpdate(shouldDefer, adapterState, pendingAdapterArgs,
                            appliedAdapterArgs),
         outstanding)
  /\ UNCHANGED << mounted, updateQueue, rejected, requests, initialArgs >>

Tick == Rerender("tick", props.shouldDefer)

ChangeDefer == Rerender("defer", ~props.shouldDefer)

\* adapter.configure's promise resolves.
ConfigureResolved(i) ==
  /\ updateQueue = << >>
  /\ Len(AdapterCalls) < MaxCalls
  /\ outstanding[i].kind = "configure"
  /\ Run("configured", NoArgs, FALSE, FALSE,
         configureThen(props.shouldDefer, adapterState, pendingAdapterArgs,
                       appliedAdapterArgs),
         Remove(outstanding, i))
  /\ UNCHANGED << props, mounted, updateQueue, rejected, requests, initialArgs,
                  deferLifted >>

\* adapter.reconfigure's promise resolves.
ReconfigureResolved(i) ==
  /\ updateQueue = << >>
  /\ outstanding[i].kind = "reconfigure"
  /\ Run("reconfigured", NoArgs, FALSE, FALSE,
         reconfigureThen(adapterState, pendingAdapterArgs, appliedAdapterArgs),
         Remove(outstanding, i))
  /\ UNCHANGED << props, mounted, updateQueue, rejected, requests, initialArgs,
                  deferLifted >>

\* A rejection handled by going back to UNCONFIGURED, so that the next
\* re-render configures again.
AdapterRejectsResets(i) ==
  /\ updateQueue = << >>
  /\ rejected' = TRUE
  /\ Run("rejected", NoArgs, FALSE, FALSE,
         Effect(UNCONFIGURED, pendingAdapterArgs, appliedAdapterArgs,
                << <<adapterState, UNCONFIGURED>> >>, << >>, << >>),
         Remove(outstanding, i))
  /\ UNCHANGED << props, mounted, updateQueue, requests, initialArgs,
                  deferLifted >>

\* An adapter promise rejects: no continuation of the component runs.
AdapterRejects(i) ==
  /\ updateQueue = << >>
  /\ rejected' = TRUE
  /\ Run("rejected", NoArgs, FALSE, FALSE,
         Effect(adapterState, pendingAdapterArgs, appliedAdapterArgs, << >>,
                << >>, << >>),
         Remove(outstanding, i))
  /\ UNCHANGED << props, mounted, updateQueue, requests, initialArgs,
                  deferLifted >>

Next ==
  \/ componentDidMount
  \/ \E a \in RequestArgs, o \in BOOLEAN, b \in BOOLEAN :
       RequestReconfiguration(a, o, b)
  \/ FlushBatch
  \/ \E a \in RequestArgs : componentWillReceiveProps(a)
  \/ Tick
  \/ ChangeDefer
  \/ \E i \in DOMAIN outstanding : ConfigureResolved(i)
  \/ \E i \in DOMAIN outstanding : ReconfigureResolved(i)
  \/ \E i \in DOMAIN outstanding : AdapterRejects(i)

Spec == Init /\ [][Next]_vars

\* One request with any adapterArgs, made before startup, while configure
\* is in flight or once CONFIGURED.
MergeNext ==
  \/ componentDidMount
  \/ /\ requests = << >>
     /\ \E a \in AnyArgs, o \in BOOLEAN : RequestReconfiguration(a, o, FALSE)
  \/ \E i \in DOMAIN outstanding : ConfigureResolved(i)
  \/ \E i \in DOMAIN outstanding : ReconfigureResolved(i)

MergeSpec == MergeInit /\ [][MergeNext]_vars

\* Startup not deferred, and every adapter call resolves: React mounts the
\* constructed component and ends every batch, and each promise resolves.
FairInit == Init /\ ~props.shouldDefer

FairNext ==
  \/ componentDidMount
  \/ \E a \in RequestArgs, o \in BOOLEAN, b \in BOOLEAN :
       RequestReconfiguration(a, o, b)
  \/ FlushBatch
  \/ \E a \in RequestArgs : componentWillReceiveProps(a)
  \/ Tick
  \/ ChangeDefer
  \/ \E i \in DOMAIN outstanding : ConfigureResolved(i)
  \/ \E i \in DOMAIN outstanding : ReconfigureResolved(i)

FairSpec ==
  /\ FairInit
  /\ [][FairNext]_vars
  /\ WF_vars(componentDidMount)
  /\ WF_vars(FlushBatch)
  /\ WF_vars(\E i \in DOMAIN outstanding : ConfigureResolved(i))
  /\ WF_vars(\E i \in DOMAIN outstanding : ReconfigureResolved(i))

----------------------------------------------------------------------------
\* C1: the lifecycle state changes only UNCONFIGURED -> CONFIGURING,
\* CONFIGURING -> CONFIGURED and CONFIGURED -> CONFIGURING: every
\* setAdapterState a handler makes is one of these three moves, the moves of
\* a handler chain from the state it started in to the state it leaves, and
\* a handler that makes none leaves the state as it was.
AllowedTransitions ==
  { <<UNCONFIGURED, CONFIGURING>>, <<CONFIGURING, CONFIGURED>>,
    <<CONFIGURED, CONFIGURING>> }

C1_LifecycleTransitions ==
  LET t == last.trans
  IN /\ \A k \in DOMAIN t : t[k] \in AllowedTransitions
     /\ t = << >> => adapterState = last.state
     /\ t # << >> =>
          /\ t[1][1] = last.state
          /\ t[Len(t)][2] = adapterState
          /\ \A k \in 1 .. Len(t) - 1 : t[k][2] = t[k + 1][1]

\* The configure continuation committed pending args: the state went
\* CONFIGURING -> CONFIGURED -> CONFIGURING within one handler.
C1_Witness ==
  /\ last.op = "configured"
  /\ last.trans = << <<CONFIGURING, CONFIGURED>>, <<CONFIGURED, CONFIGURING>> >>

\* C2: at most one adapter promise is outstanding; a handler that issues a
\* configure/reconfigure call makes exactly one and started in UNCONFIGURED
\* or CONFIGURED, or moved to CONFIGURED itself before issuing it; and a
\* re-render (componentDidUpdate) in state CONFIGURING issues no call and
\* leaves adapterState, appliedAdapterArgs and pendingAdapterArgs alone.
C2_NoConcurrentAdapterCall ==
  /\ Len(outstanding) <= 1
  /\ Len(AdapterCalls) > last.ncalls =>
       /\ Len(AdapterCalls) = last.ncalls + 1
       /\ last.noutstanding = 0 \/ last.op \in {"configured", "reconfigured"}
       /\ \E k \in DOMAIN last.trans :
            /\ last.trans[k][2] = CONFIGURING
            /\ last.trans[k][1] \in {UNCONFIGURED, CONFIGURED}
  /\ (last.op \in {"tick", "defer"} /\ last.state = CONFIGURING) =>
       /\ Len(AdapterCalls) = last.ncalls
       /\ Len(outstanding) = last.noutstanding
       /\ adapterState = CONFIGURING
       /\ appliedAdapterArgs = last.applied
       /\ pendingAdapterArgs = last.pending

\* A re-render ran while a reconfigure call was in flight.
C2_Witness ==
  /\ last.op = "tick"
  /\ last.state = CONFIGURING
  /\ Len(outstanding) = 1
  /\ outstanding[1].kind = "reconfigure"

Has(args, p, v) == p \in DOMAIN args /\ args[p] = v

Conflicts(p, args) == \E q \in DOMAIN args : IsPrefix(p, q) \/ IsPrefix(q, p)

\* The key/values the first k requests leave owed: those requested with
\* shouldOverwrite false while CONFIGURING, until a later request sets the
\* same key or overwrites.
RECURSIVE Owed(_)
Owed(k) ==
  IF k = 0
    THEN NoArgs
    ELSE LET r == requests[k]
             before == Owed(k - 1)
             still == IF r.overwrite
                        THEN NoArgs
                        ELSE [ p \in { q \in DOMAIN before : ~Conflicts(q, r.args) }
                                 |-> before[p] ]
         IN IF r.state = CONFIGURING /\ ~r.overwrite
              THEN merge(still, r.args)
              ELSE still

\* C3: a request made with shouldOverwrite false while CONFIGURING is never
\* lost: its key/values are in pendingAdapterArgs when the call returns, and
\* from then on each is in pendingAdapterArgs or appliedAdapterArgs until a
\* later request sets the same key or overwrites.
C3_RequestsNeverLost ==
  /\ (last.op = "request" /\ last.state = CONFIGURING /\ ~last.overwrite) =>
       /\ pendingAdapterArgs # NULL
       /\ \A p \in DOMAIN last.args :
            Has(Unwrap(pendingAdapterArgs), p, last.args[p])
  /\ LET owed == Owed(Len(requests))
     IN \A p \in DOMAIN owed :
          \/ pendingAdapterArgs # NULL /\ Has(Unwrap(pendingAdapterArgs), p, owed[p])
          \/ Has(appliedAdapterArgs, p, owed[p])

\* C4: a request made while CONFIGURING or UNCONFIGURED only updates
\* pendingAdapterArgs: no adapter call is issued and adapterState and
\* appliedAdapterArgs are left alone; appliedAdapterArgs changes only in the
\* continuation of configure or in a handler that started in CONFIGURED.
C4_QueuedRequestFrame ==
  /\ (last.op = "request" /\ last.state # CONFIGURED) =>
       /\ adapterState = last.state
       /\ appliedAdapterArgs = last.applied
       /\ updateQueue = << >>
       /\ Len(AdapterCalls) = last.ncalls
       /\ Len(outstanding) = last.noutstanding
       /\ pendingAdapterArgs =
            Some(mergeAdapterArgs(IF last.pending # NULL
                                    THEN Unwrap(last.pending)
                                    ELSE last.applied,
                                  last.args, last.overwrite))
  /\ appliedAdapterArgs # last.applied =>
       last.op = "configured" \/ last.state = CONFIGURED

\* A request was queued while an adapter call was in flight.
C4_Witness ==
  /\ last.op = "request"
  /\ last.state = CONFIGURING
  /\ Len(outstanding) = 1
  /\ pendingAdapterArgs # NULL
  /\ pendingAdapterArgs # last.pending

\* C5: reconfigureOrQueue called while CONFIGURED commits synchronously:
\* when it returns, appliedAdapterArgs is the merge of the previous
\* appliedAdapterArgs with the request under its options, and the request
\* is not queued into pendingAdapterArgs.
C5_SynchronousCommit ==
  (last.op = "request" /\ last.state = CONFIGURED) =>
    /\ appliedAdapterArgs =
         mergeAdapterArgs(last.applied, last.args, last.overwrite)
    /\ pendingAdapterArgs \in {NULL, last.pending}

\* The handler that ran last committed into appliedAdapterArgs.
Committed ==
  \/ last.op = "flush"
  \/ last.op = "request" /\ last.state = CONFIGURED /\ ~last.batched
  \/ last.op = "props" /\ last.state = CONFIGURED
  \/ last.op = "configured" /\ last.pending # NULL

\* C6: every commit into appliedAdapterArgs made while CONFIGURED is followed
\* by componentDidUpdate issuing a reconfigure call (CONFIGURED ->
\* CONFIGURING) whose argument is the appliedAdapterArgs just committed.
C6_CommitReconfigures ==
  Committed =>
    /\ adapterState = CONFIGURING
    /\ last.trans # << >>
    /\ last.trans[Len(last.trans)] = <<CONFIGURED, CONFIGURING>>
    /\ Len(AdapterCalls) = last.ncalls + 1
    /\ calls[Len(calls)] = Call("reconfigure", appliedAdapterArgs)

\* The requests so far merged one after the other into the construction
\* args.
RECURSIVE Merged(_)
Merged(k) ==
  IF k = 0
    THEN initialArgs
    ELSE mergeAdapterArgs(Merged(k - 1), requests[k].args, requests[k].overwrite)

\* C7: startup with no request before configure resolves: componentDidMount
\* moves to CONFIGURING and calls configure with the construction args; when
\* configure resolves the state is CONFIGURED, appliedAdapterArgs is the
\* construction args, pendingAdapterArgs is null and no reconfigure call is
\* issued.
C7_PlainStartup ==
  /\ (last.op = "mount" /\ ~props.shouldDefer /\ requests = << >>) =>
       /\ adapterState = CONFIGURING
       /\ AdapterCalls = << Call("configure", initialArgs) >>
       /\ outstanding = AdapterCalls
  /\ (last.op = "configured" /\ requests = << >>) =>
       /\ adapterState = CONFIGURED
       /\ appliedAdapterArgs = initialArgs
       /\ pendingAdapterArgs = NULL
       /\ AdapterCalls = << Call("configure", initialArgs) >>
       /\ outstanding = << >>

C7_Witness ==
  /\ last.op = "configured"
  /\ requests = << >>
  /\ adapterState = CONFIGURED
  /\ calls[1].kind = "onFlagsStateChange"

\* C8: requests queued before configure resolves are committed when it
\* resolves: the state becomes CONFIGURED, appliedAdapterArgs becomes the
\* accumulated pendingAdapterArgs, which is the construction args merged with
\* the requests in arrival order, pendingAdapterArgs is cleared, and every
\* reconfigure call issued by then was given that merged value.
C8_ConfigureDrainsPending ==
  (last.op = "configured" /\ last.pending # NULL) =>
    /\ last.trans[1] = <<CONFIGURING, CONFIGURED>>
    /\ appliedAdapterArgs = Unwrap(last.pending)
    /\ appliedAdapterArgs = Merged(Len(requests))
    /\ pendingAdapterArgs = NULL
    /\ \A k \in DOMAIN calls :
         calls[k].kind = "reconfigure" => calls[k].args = appliedAdapterArgs

\* Two requests were queued before configure resolved.
C8_Witness ==
  /\ last.op = "configured"
  /\ Len(requests) = 2
  /\ requests[1].args # requests[2].args
  /\ requests[2].state = CONFIGURING
  /\ pendingAdapterArgs = NULL
  /\ appliedAdapterArgs # initialArgs

\* C9: while shouldDeferAdapterConfiguration has been true since
\* construction, the state is UNCONFIGURED, no configure or reconfigure call
\* has been issued, appliedAdapterArgs is the construction args and
\* pendingAdapterArgs holds the requests made so far, merged in order.
C9_DeferredStartup ==
  ~deferLifted =>
    /\ adapterState = UNCONFIGURED
    /\ AdapterCalls = << >>
    /\ outstanding = << >>
    /\ appliedAdapterArgs = initialArgs
    /\ pendingAdapterArgs =
         IF requests = << >> THEN NULL ELSE Some(Merged(Len(requests)))

\* Deferred, mounted, two requests made and a re-render run.
C9_Witness ==
  /\ ~deferLifted
  /\ mounted
  /\ Len(requests) = 2
  /\ last.op = "tick"

\* C10: pendingAdapterArgs is cleared only once its value is committed:
\* whenever it goes from non-null to null, appliedAdapterArgs is the value it
\* held just before.
C10_ClearedOnlyOnceCommitted ==
  (last.pending # NULL /\ pendingAdapterArgs = NULL) =>
    appliedAdapterArgs = Unwrap(last.pending)

\* An adapter call was issued by the last handler.
Issued == Len(AdapterCalls) > last.ncalls

C12_ExternalArgsChange ==
  /\ last.op = "props" =>
       /\ last.overwrite = (last.state = CONFIGURED)
       /\ last.state = CONFIGURED => appliedAdapterArgs = last.args
       /\ last.state # CONFIGURED =>
            LET seed == IF last.pending # NULL THEN Unwrap(last.pending)
                                               ELSE last.applied
            IN /\ appliedAdapterArgs = last.applied
               /\ pendingAdapterArgs # NULL
               /\ pendingAdapterArgs = Some(merge(seed, last.args))
               /\ \A p \in DOMAIN last.args :
                    Has(Unwrap(pendingAdapterArgs), p, last.args[p])
               /\ \A p \in DOMAIN seed :
                    ~Conflicts(p, last.args) =>
                      Has(Unwrap(pendingAdapterArgs), p, seed[p])
  /\ last.op \in {"tick", "defer"} =>
       /\ appliedAdapterArgs = last.applied
       /\ pendingAdapterArgs = last.pending

\* The adapterArgs prop changed while configure was in flight and a request
\* was already queued.
C12_Witness ==
  /\ last.op = "props"
  /\ last.state = CONFIGURING
  /\ last.pending # NULL
  /\ Unwrap(last.pending) # last.applied
  /\ Unwrap(pendingAdapterArgs) # last.args

\* C13: an adapter call that rejects or has not resolved leaves the state
\* CONFIGURING.  A handler that starts in CONFIGURING, other than the
\* resolution of the call, leaves the state CONFIGURING, issues no adapter
\* call and leaves appliedAdapterArgs alone; once a call has rejected this
\* holds of every later handler, and every later request is merged into
\* pendingAdapterArgs.
C13_RejectionStalls ==
  /\ (last.state = CONFIGURING /\ last.op \notin {"configured", "reconfigured"}) =>
       /\ adapterState = CONFIGURING
       /\ ~Issued
       /\ appliedAdapterArgs = last.applied
  /\ rejected =>
       /\ adapterState = CONFIGURING
       /\ last.state = CONFIGURING
       /\ outstanding = << >>
       /\ last.op \notin {"configured", "reconfigured", "flush", "mount"}
       /\ last.op \in {"request", "props"} =>
            /\ pendingAdapterArgs # NULL
            /\ \A p \in DOMAIN last.args :
                 Has(Unwrap(pendingAdapterArgs), p, last.args[p])
            /\ pendingAdapterArgs =
                 Some(IF last.overwrite
                        THEN last.args
                        ELSE merge(IF last.pending # NULL
                                     THEN Unwrap(last.pending)
                                     ELSE last.applied,
                                   last.args))
       /\ last.op \notin {"request", "props"} =>
            pendingAdapterArgs = last.pending

\* A reconfigure call rejected, and afterwards a request was made and a
\* re-render ran.
C13_Witness ==
  /\ rejected
  /\ last.op = "tick"
  /\ Len(AdapterCalls) = 2
  /\ pendingAdapterArgs # NULL
  /\ requests # << >>
  /\ requests[Len(requests)].state = CONFIGURING
  /\ appliedAdapterArgs = initialArgs

IsFlagsCall(c) == c.kind = "onFlagsStateChange"

\* C14: startup with a non-empty defaultFlags makes exactly one
\* onFlagsStateChange(defaultFlags) call, before configure is called and
\* whether or not configuration is deferred; an empty defaultFlags makes
\* none; nothing after startup makes another; and the notification changes
\* neither adapterState nor appliedAdapterArgs nor pendingAdapterArgs.
C14_DefaultFlagsOnce ==
  LET flagCalls == SelectSeq(calls, IsFlagsCall)
  IN /\ ~mounted => calls = << >>
     /\ (mounted /\ DOMAIN props.defaultFlags = {}) => flagCalls = << >>
     /\ (mounted /\ DOMAIN props.defaultFlags # {}) =>
          /\ flagCalls = << [kind |-> "onFlagsStateChange",
                             args |-> props.defaultFlags] >>
          /\ IsFlagsCall(calls[1])
     /\ last.op = "mount" =>
          /\ appliedAdapterArgs = last.applied
          /\ pendingAdapterArgs = last.pending
          /\ props.shouldDefer => (adapterState = last.state /\ ~Issued)
          /\ ~props.shouldDefer =>
               last.trans = << <<UNCONFIGURED, CONFIGURING>> >>

\* Deferred startup with default flags, configured later: the one
\* notification precedes the configure call.
C14_Witness ==
  /\ Len(calls) = 3
  /\ IsFlagsCall(calls[1])
  /\ calls[2].kind = "configure"
  /\ calls[3].kind = "reconfigure"
  /\ requests # << >>
  /\ requests[1].op = "props"
  /\ requests[1].state = UNCONFIGURED

\* r holds every leaf of b, every leaf of a whose key path neither lies
\* under nor above a key path of b, and nothing else.
IsDeepUnion(r, a, b) ==
  /\ \A p \in DOMAIN b : Has(r, p, b[p])
  /\ \A p \in DOMAIN a : ~Conflicts(p, b) => Has(r, p, a[p])
  /\ \A p \in DOMAIN r :
       \/ p \in DOMAIN b
       \/ p \in DOMAIN a /\ ~Conflicts(p, b)

C16_CallArguments ==
  Issued =>
    AdapterCalls[Len(AdapterCalls)].args =
      IF last.pending # NULL THEN Unwrap(last.pending) ELSE appliedAdapterArgs

\* A call issued while pendingAdapterArgs was non-null and differed from
\* appliedAdapterArgs, and one issued while it was null.
C16_Witness ==
  /\ Issued
  /\ last.pending # NULL
  /\ Unwrap(last.pending) # appliedAdapterArgs
  /\ AdapterCalls[Len(AdapterCalls)].kind = "reconfigure"
  /\ AdapterCalls[1].args = initialArgs

\* C17: the completion of a reconfigure call only moves adapterState from
\* CONFIGURING to CONFIGURED: appliedAdapterArgs and pendingAdapterArgs are
\* unchanged (a pendingAdapterArgs set during the call is neither committed
\* nor cleared) and the completion issues no adapter call.
C17_ReconfigureCompletionFrame ==
  last.op = "reconfigured" =>
    /\ last.state = CONFIGURING
    /\ adapterState = CONFIGURED
    /\ last.trans = << <<CONFIGURING, CONFIGURED>> >>
    /\ appliedAdapterArgs = last.applied
    /\ pendingAdapterArgs = last.pending
    /\ ~Issued
    /\ calls[Len(calls)].kind = "reconfigure"
    /\ Len(outstanding) = last.noutstanding - 1

\* A reconfigure call completed while a request made during it was queued.
C17_Witness ==
  /\ last.op = "reconfigured"
  /\ pendingAdapterArgs # NULL
  /\ Unwrap(pendingAdapterArgs) # appliedAdapterArgs
  /\ requests[Len(requests)].state = CONFIGURING

\* C18: whenever the state is CONFIGURED, no adapter call is outstanding and
\* no commit awaits the end of its batch, the args most recently passed to
\* the adapter are appliedAdapterArgs.
C18_AdapterInSync ==
  (adapterState = CONFIGURED /\ outstanding = << >> /\ updateQueue = << >>) =>
    /\ AdapterCalls # << >>
    /\ AdapterCalls[Len(AdapterCalls)].args = appliedAdapterArgs

\* C19: configure is called at most once and only from UNCONFIGURED, at
\* startup or at a re-render once configuration is not deferred; every other
\* adapter call is reconfigure; a reconfigure call is issued only from
\* CONFIGURED, which is reached only once the configure call has resolved.
C19_ConfigureOnce ==
  /\ \A k \in DOMAIN AdapterCalls :
       AdapterCalls[k].kind = IF k = 1 THEN "configure" ELSE "reconfigure"
  /\ (Issued /\ last.ncalls = 0) =>
       /\ last.state = UNCONFIGURED
       /\ last.trans = << <<UNCONFIGURED, CONFIGURING>> >>
       /\ last.op \in {"mount", "tick", "defer", "props"}
       /\ ~props.shouldDefer
       /\ last.op # "mount" => mounted
  /\ (Issued /\ last.ncalls > 0) =>
       /\ last.trans[Len(last.trans)] = <<CONFIGURED, CONFIGURING>>
       /\ \A i \in DOMAIN outstanding : outstanding[i].kind = "reconfigure"
  /\ adapterState = CONFIGURED =>
       /\ AdapterCalls # << >>
       /\ \A i \in DOMAIN outstanding : outstanding[i].kind # "configure"
  /\ (\E i \in DOMAIN outstanding : outstanding[i].kind = "configure") =>
       Len(AdapterCalls) = 1

\* Deferred startup: configure was called by a later re-render, resolved,
\* and two reconfigure calls followed.
C19_Witness ==
  /\ Len(AdapterCalls) = 3
  /\ requests # << >>
  /\ requests[1].op = "props"
  /\ requests[1].state = UNCONFIGURED
  /\ adapterState = CONFIGURED

\* CONFIGURED with no adapter call outstanding and no commit awaiting the
\* end of its batch.
Quiescent ==
  /\ adapterState = CONFIGURED
  /\ outstanding = << >>
  /\ updateQueue = << >>

\* C20, progress: when every adapter call resolves and startup is not
\* deferred, every CONFIGURING state is followed by CONFIGURED and the
\* component reaches a quiescent CONFIGURED state again and again.
C20_EventuallyConfigured ==
  /\ (adapterState = CONFIGURING) ~> (adapterState = CONFIGURED)
  /\ []<>Quiescent

\* C20: when every adapter call resolves and startup is not deferred, the
\* component is never stuck: it reaches a quiescent CONFIGURED state with no
\* call outstanding, and in that quiescent state pendingAdapterArgs is null.
C20_QuiescentPendingNull ==
  Quiescent => pendingAdapterArgs = NULL

====
